---------------------------- MODULE Spec2Model ----------------------------
(***************************************************************************)
(* Model of the calculator service of src/app.py: the two catalogs loaded  *)
(* at start-up (machine_data, disk_data), the pure calculator functions    *)
(* (calculate_disk_performance, find_machine_specs,                        *)
(* calculate_effective_performance) and the four request handlers that use *)
(* them (calculate, optimal-disk-size, all-machines, disk-types).          *)
(*                                                                         *)
(* Python values are modelled as follows.                                  *)
(*  - a JSON value of a request is a tagged record (JNone, JStr, JInt,     *)
(*    JFloat), so that truthiness and int() act on it as Python does;      *)
(*  - a dict whose iteration order the code uses is a sequence of          *)
(*    [k, v] entries in insertion order; any other dict is a TLA+ record   *)
(*    whose DOMAIN is its key set (an optional key is simply absent);      *)
(*  - a number that the catalogs give as a fraction (the per-GB rates) is  *)
(*    an exact rational [n, d]; arithmetic on it is exact (IEEE rounding   *)
(*    of Python floats is not modelled).                                   *)
(***************************************************************************)
EXTENDS Integers, Sequences, FiniteSets, TLC

VARIABLES
    machine_data,   \* app.py:29, the machine catalog
    disk_data,      \* app.py:30, the disk catalog
    loaded,         \* history: the two catalogs as they were loaded
    request,        \* the request being answered (None when idle)
    response,       \* the answer to it (None when idle)
    calls,          \* history: calculator functions the handler invoked, in order
    handled         \* history: how many requests have been answered

vars == <<machine_data, disk_data, loaded, request, response, calls, handled>>

-----------------------------------------------------------------------------
(* Python values *)

None == [t |-> "None"]
JStr(s) == [t |-> "str", s |-> s]
JInt(i) == [t |-> "int", i |-> i]
JFloat(n, d) == [t |-> "float", n |-> n, d |-> d]

\* bool(v) of a request value
Truthy(v) ==
    CASE v.t = "None"  -> FALSE
      [] v.t = "str"   -> v.s # ""
      [] v.t = "int"   -> v.i # 0
      [] v.t = "float" -> v.n # 0

\* {}
EmptyDict == [x \in {} |-> 0]

\* d.get(k, default)
Get(d, k, default) == IF k \in DOMAIN d THEN d[k] ELSE default

\* insertion-ordered dicts: a sequence of [k, v] entries with distinct keys
Has(od, key) == \E i \in 1..Len(od) : od[i].k = key
Lookup(od, key) == od[CHOOSE i \in 1..Len(od) : od[i].k = key].v
Values(od) == [i \in 1..Len(od) |-> od[i].v]

\* a str key of a dict lookup: a request value that is no string is in no catalog
InDict(v, od) == v.t = "str" /\ Has(od, v.s)

(* exact rationals, denominator > 0 *)
Rat(n, d) == [n |-> n, d |-> d]
RInt(i) == [n |-> i, d |-> 1]
RAdd(a, b) == [n |-> a.n * b.d + b.n * a.d, d |-> a.d * b.d]
RMul(a, b) == [n |-> a.n * b.n, d |-> a.d * b.d]
\* a / b for b > 0
RDiv(a, b) == [n |-> a.n * b.d, d |-> a.d * b.n]
RLt(a, b) == a.n * b.d < b.n * a.d
\* Python's min(a, b) and max(a, b): the first argument wins a tie
RMin(a, b) == IF RLt(b, a) THEN b ELSE a
RMax(a, b) == IF RLt(a, b) THEN b ELSE a
\* int(x): truncation toward zero
Trunc(x) == IF x.n >= 0 THEN x.n \div x.d ELSE -((-x.n) \div x.d)

Min2(a, b) == IF b < a THEN b ELSE a
Max2(a, b) == IF a < b THEN b ELSE a
Min3(a, b, c) == Min2(Min2(a, b), c)

-----------------------------------------------------------------------------
(* Strings.  The model's universe of disk-type names is finite, so          *)
(* str.startswith('hyperdisk') is the set of its names with that prefix.    *)

DiskTypeNames == {"pd-balanced", "local-ssd", "hyperdisk-balanced", "pd-unknown"}
startswith_hyperdisk(s) == s \in {"hyperdisk-balanced"}

-----------------------------------------------------------------------------
(* Calculator functions.  Each takes the catalog it reads as its first      *)
(* argument (md for the global machine_data, dd for the global disk_data).  *)

\* The Scaling branch computing throughput_<dir>_mbps with a baseline term, as IOPS has.
scaling_throughput_WithBaseline(disk_spec, disk_size_gb, dir) ==
    LET baseline == Get(Get(disk_spec, "iops_baseline", EmptyDict), dir, 0)
    IN  Trunc(RMin(RAdd(RInt(baseline), RMul(RInt(disk_size_gb), disk_spec.throughput_per_gb[dir])),
                   RInt(disk_spec.throughput_max[dir])))

\* app.py:65-75, one direction of the Scaling branch's IOPS
scaling_iops(disk_spec, disk_size_gb, dir) ==
    LET baseline == Get(Get(disk_spec, "iops_baseline", EmptyDict), dir, 0)
    IN  Trunc(RMin(RAdd(RInt(baseline), RMul(RInt(disk_size_gb), disk_spec.iops_per_gb[dir])),
                   RInt(disk_spec.iops_max[dir])))

\* app.py:76-83, one direction of the Scaling branch's throughput
scaling_throughput(disk_spec, disk_size_gb, dir) ==
    Trunc(RMin(RMul(RInt(disk_size_gb), disk_spec.throughput_per_gb[dir]),
               RInt(disk_spec.throughput_max[dir])))

\* app.py:33-90
calculate_disk_performance(dd, disk_type, disk_size_gb) ==
    IF ~InDict(disk_type, dd) THEN None
    ELSE
      LET disk_spec == Lookup(dd, disk_type.s)
          result == [disk_type |-> disk_type.s, disk_name |-> disk_spec.name,
                     disk_size_gb |-> disk_size_gb]
      IN  IF disk_type.s = "local-ssd" THEN
            LET num_devices == RMax(RInt(1), Rat(disk_size_gb, 375))
            IN  result @@
                [iops_read |-> Trunc(RMul(RInt(disk_spec.iops_fixed.read), num_devices)),
                 iops_write |-> Trunc(RMul(RInt(disk_spec.iops_fixed.write), num_devices)),
                 throughput_read_mbps |-> Trunc(RMul(RInt(disk_spec.throughput_fixed.read), num_devices)),
                 throughput_write_mbps |-> Trunc(RMul(RInt(disk_spec.throughput_fixed.write), num_devices))]
          ELSE IF startswith_hyperdisk(disk_type.s) THEN
            result @@
            [iops_min |-> Get(disk_spec, "iops_min", Get(disk_spec, "iops_fixed", 0)),
             iops_max |-> Get(disk_spec, "iops_max", Get(disk_spec, "iops_fixed", 0)),
             throughput_min_mbps |-> disk_spec.throughput_min,
             throughput_max_mbps |-> disk_spec.throughput_max,
             note |-> disk_spec.note]
          ELSE
            result @@
            [iops_read |-> scaling_iops(disk_spec, disk_size_gb, "read"),
             iops_write |-> scaling_iops(disk_spec, disk_size_gb, "write"),
             throughput_read_mbps |-> scaling_throughput(disk_spec, disk_size_gb, "read"),
             throughput_write_mbps |-> scaling_throughput(disk_spec, disk_size_gb, "write")]

\* list(machine['disk_limits'].values())[-1]: the last entry instead of the first
fallback_limits_Last(disk_limits) == Values(disk_limits)[Len(disk_limits)]

\* app.py:112 and 120, list(machine['disk_limits'].values())[0]
fallback_limits(disk_limits) == Values(disk_limits)[1]

\* app.py:97-132, the result for the machine entry found in `family`
machine_result(family, machine_type, machine, disk_type) ==
    LET result == [family |-> family, machine_type |-> machine_type,
                   vcpu |-> machine.vcpu, memory_gb |-> machine.memory_gb,
                   network_bandwidth_gbps |-> machine.network_bandwidth_gbps,
                   cpu_platform |-> Get(machine, "cpu_platform", "Unknown")]
        limits == IF Truthy(disk_type) /\ "disk_limits" \in DOMAIN machine
                  THEN IF InDict(disk_type, machine.disk_limits)
                       THEN Lookup(machine.disk_limits, disk_type.s)
                       ELSE fallback_limits(machine.disk_limits)
                  ELSE IF "disk_limits" \in DOMAIN machine
                  THEN fallback_limits(machine.disk_limits)
                  ELSE [max_disk_iops_read |-> Get(machine, "max_disk_iops_read", 0),
                        max_disk_iops_write |-> Get(machine, "max_disk_iops_write", 0),
                        max_disk_throughput_read_mbps |-> Get(machine, "max_disk_throughput_read_mbps", 0),
                        max_disk_throughput_write_mbps |-> Get(machine, "max_disk_throughput_write_mbps", 0)]
    IN  result @@
        [max_disk_iops_read |-> limits.max_disk_iops_read,
         max_disk_iops_write |-> limits.max_disk_iops_write,
         max_disk_throughput_read_mbps |-> limits.max_disk_throughput_read_mbps,
         max_disk_throughput_write_mbps |-> limits.max_disk_throughput_write_mbps]

\* app.py:92-133: the first family, in the catalog's order, that has the machine
find_machine_specs(md, machine_type, disk_type) ==
    LET hits == {i \in 1..Len(md) : InDict(machine_type, md[i].v.machines)}
    IN  IF hits = {} THEN None
        ELSE LET i == CHOOSE j \in hits : \A h \in hits : j <= h
             IN  machine_result(md[i].k, machine_type.s,
                                Lookup(md[i].v.machines, machine_type.s), disk_type)

\* ', '.join(items), as the sequence of the pieces of the joined string
RECURSIVE join(_, _)
join(sep, items) ==
    IF Len(items) <= 1 THEN items
    ELSE <<items[1], sep>> \o join(sep, Tail(items))

\* The throughput attribution with the tie given to the network (< instead of <=).
throughput_bottleneck_TieToNetwork(effective, machine_max, disk_throughput, network_throughput_mbps, dir) ==
    IF effective < machine_max
    THEN IF disk_throughput < network_throughput_mbps
         THEN << IF dir = "read" THEN "disk throughput (read)" ELSE "disk throughput (write)" >>
         ELSE << IF dir = "read" THEN "network bandwidth (read)" ELSE "network bandwidth (write)" >>
    ELSE << >>

\* app.py:200-210, what one direction's throughput check appends to bottlenecks
throughput_bottleneck(effective, machine_max, disk_throughput, network_throughput_mbps, dir) ==
    IF effective < machine_max
    THEN IF disk_throughput <= network_throughput_mbps
         THEN << IF dir = "read" THEN "disk throughput (read)" ELSE "disk throughput (write)" >>
         ELSE << IF dir = "read" THEN "network bandwidth (read)" ELSE "network bandwidth (write)" >>
    ELSE << >>

\* The IOPS check reporting a tie with the machine ceiling as a disk bottleneck (<= instead of <).
iops_bottleneck_OnTie(effective, machine_max, dir) ==
    IF effective <= machine_max
    THEN << IF dir = "read" THEN "disk IOPS (read)" ELSE "disk IOPS (write)" >>
    ELSE << >>

\* app.py:194-197, what one direction's IOPS check appends to bottlenecks
iops_bottleneck(effective, machine_max, dir) ==
    IF effective < machine_max
    THEN << IF dir = "read" THEN "disk IOPS (read)" ELSE "disk IOPS (write)" >>
    ELSE << >>

\* The effective throughput without the network ceiling.
effective_throughput_NoNetwork(machine_max, disk_throughput, network_throughput_mbps) ==
    Min2(machine_max, disk_throughput)

\* app.py:172-181
effective_throughput(machine_max, disk_throughput, network_throughput_mbps) ==
    Min3(machine_max, disk_throughput, network_throughput_mbps)

\* app.py:135-217
calculate_effective_performance(machine_specs, disk_performance) ==
    LET network_throughput_mbps == machine_specs.network_bandwidth_gbps * 125
        result ==
          [machine_type |-> machine_specs.machine_type,
           family |-> machine_specs.family,
           disk_type |-> disk_performance.disk_type,
           disk_size_gb |-> disk_performance.disk_size_gb,
           machine_limits |->
             [iops_read |-> machine_specs.max_disk_iops_read,
              iops_write |-> machine_specs.max_disk_iops_write,
              throughput_read_mbps |-> machine_specs.max_disk_throughput_read_mbps,
              throughput_write_mbps |-> machine_specs.max_disk_throughput_write_mbps,
              network_bandwidth_gbps |-> machine_specs.network_bandwidth_gbps,
              network_throughput_mbps |-> network_throughput_mbps,
              vcpu |-> machine_specs.vcpu,
              memory_gb |-> machine_specs.memory_gb],
           disk_performance |-> disk_performance]
    IN  IF startswith_hyperdisk(disk_performance.disk_type) THEN
          result @@
          [effective_performance |->
             [note |-> "Hyperdisk uses provisioned performance. Configure within the specified ranges.",
              iops_range |-> [lo |-> Get(disk_performance, "iops_min", 0), sep |-> " - ",
                              hi |-> Get(disk_performance, "iops_max", 0)],
              throughput_range_mbps |-> [lo |-> disk_performance.throughput_min_mbps, sep |-> " - ",
                                         hi |-> disk_performance.throughput_max_mbps]],
           bottleneck |-> <<"Configure provisioned performance within limits">>]
        ELSE
          LET effective_iops_read ==
                Min2(machine_specs.max_disk_iops_read, disk_performance.iops_read)
              effective_iops_write ==
                Min2(machine_specs.max_disk_iops_write, disk_performance.iops_write)
              effective_throughput_read ==
                effective_throughput(machine_specs.max_disk_throughput_read_mbps,
                                     disk_performance.throughput_read_mbps,
                                     network_throughput_mbps)
              effective_throughput_write ==
                effective_throughput(machine_specs.max_disk_throughput_write_mbps,
                                     disk_performance.throughput_write_mbps,
                                     network_throughput_mbps)
              bottlenecks ==
                iops_bottleneck(effective_iops_read, machine_specs.max_disk_iops_read, "read")
                \o iops_bottleneck(effective_iops_write, machine_specs.max_disk_iops_write, "write")
                \o throughput_bottleneck(effective_throughput_read,
                                         machine_specs.max_disk_throughput_read_mbps,
                                         disk_performance.throughput_read_mbps,
                                         network_throughput_mbps, "read")
                \o throughput_bottleneck(effective_throughput_write,
                                         machine_specs.max_disk_throughput_write_mbps,
                                         disk_performance.throughput_write_mbps,
                                         network_throughput_mbps, "write")
          IN  result @@
              [effective_performance |->
                 [iops_read |-> effective_iops_read,
                  iops_write |-> effective_iops_write,
                  throughput_read_mbps |-> effective_throughput_read,
                  throughput_write_mbps |-> effective_throughput_write],
               bottleneck |->
                 IF bottlenecks # << >>
                 THEN <<"Bottleneck: ">> \o join(", ", bottlenecks)
                 ELSE <<"Machine type is the limiting factor">>]

-----------------------------------------------------------------------------
(* Request handlers, as functions of the catalogs and the request's JSON    *)
(* body.  Each returns the response (status, body) and the calculator       *)
(* functions it invoked on the way, in order.                               *)

\* the decimal strings among the model's request strings, with int(s) of each
Numerals == ("0" :> 0) @@ ("5" :> 5) @@ ("12" :> 12)

\* app.py:344-347, int(disk_size_gb): ok = FALSE stands for ValueError / TypeError
py_int(v) ==
    CASE v.t = "int"   -> [ok |-> TRUE, i |-> v.i]
      [] v.t = "float" -> [ok |-> TRUE, i |-> Trunc(Rat(v.n, v.d))]
      [] v.t = "str"   -> IF v.s \in DOMAIN Numerals
                          THEN [ok |-> TRUE, i |-> Numerals[v.s]]
                          ELSE [ok |-> FALSE, i |-> 0]
      [] v.t = "None"  -> [ok |-> FALSE, i |-> 0]

error(status, msg, calls_) == [status |-> status, body |-> [error |-> msg], calls |-> calls_]

\* The size validation with the two bounds exchanged inclusive/exclusive (<= and >=).
size_error_Exclusive(disk_spec, disk_size_gb) ==
    LET min_size == Get(disk_spec, "min_size_gb", 10)
        max_size == Get(disk_spec, "max_size_gb", 65536)
    IN  IF disk_size_gb <= min_size
        THEN [msg |-> "Disk size too small for {name}. Minimum: {min_size} GB",
              name |-> disk_spec.name, bound |-> min_size]
        ELSE IF disk_size_gb >= max_size
        THEN [msg |-> "Disk size too large for {name}. Maximum: {max_size:,} GB",
              name |-> disk_spec.name, bound |-> max_size]
        ELSE None

\* app.py:357-370, the message of the size validation, None when the size passes
size_error(disk_spec, disk_size_gb) ==
    LET min_size == Get(disk_spec, "min_size_gb", 10)
        max_size == Get(disk_spec, "max_size_gb", 65536)
    IN  IF disk_size_gb < min_size
        THEN [msg |-> "Disk size too small for {name}. Minimum: {min_size} GB",
              name |-> disk_spec.name, bound |-> min_size]
        ELSE IF disk_size_gb > max_size
        THEN [msg |-> "Disk size too large for {name}. Maximum: {max_size:,} GB",
              name |-> disk_spec.name, bound |-> max_size]
        ELSE None

\* app.py:372-385 with the order of the last steps changed: the disk performance is
\* computed before the machine type is looked up.
calculate_core_DiskFirst(md, dd, machine_type, disk_type, disk_size_gb) ==
    LET disk_performance == calculate_disk_performance(dd, disk_type, disk_size_gb)
        machine_specs == find_machine_specs(md, machine_type, disk_type)
    IN  IF machine_specs = None
        THEN error(404, [msg |-> "Unknown machine type: {machine_type}", arg |-> machine_type],
                   <<"calculate_disk_performance", "find_machine_specs">>)
        ELSE [status |-> 200,
              body |-> calculate_effective_performance(machine_specs, disk_performance),
              calls |-> <<"calculate_disk_performance", "find_machine_specs",
                          "calculate_effective_performance">>]

\* app.py:372-385, calculate once the request has passed validation
calculate_core(md, dd, machine_type, disk_type, disk_size_gb) ==
    LET machine_specs == find_machine_specs(md, machine_type, disk_type)
        disk_performance == calculate_disk_performance(dd, disk_type, disk_size_gb)
    IN  IF machine_specs = None
        THEN error(404, [msg |-> "Unknown machine type: {machine_type}", arg |-> machine_type],
                   <<"find_machine_specs">>)
        ELSE IF disk_performance = None
        THEN error(500, [msg |-> "Failed to calculate disk performance"],
                   <<"find_machine_specs", "calculate_disk_performance">>)
        ELSE [status |-> 200,
              body |-> calculate_effective_performance(machine_specs, disk_performance),
              calls |-> <<"find_machine_specs", "calculate_disk_performance",
                          "calculate_effective_performance">>]

\* app.py:332-385
calculate(md, dd, data) ==
    LET machine_type == Get(data, "machine_type", None)
        disk_type == Get(data, "disk_type", None)
        disk_size_gb == Get(data, "disk_size_gb", None)
    IN  IF ~(Truthy(machine_type) /\ Truthy(disk_type) /\ Truthy(disk_size_gb))
        THEN error(400, [msg |-> "Missing required parameters"], << >>)
        ELSE IF ~py_int(disk_size_gb).ok
        THEN error(400, [msg |-> "Disk size must be a valid number"], << >>)
        ELSE IF py_int(disk_size_gb).i <= 0
        THEN error(400, [msg |-> "Disk size must be greater than 0"], << >>)
        ELSE IF ~InDict(disk_type, dd)
        THEN error(404, [msg |-> "Unknown disk type: {disk_type}", arg |-> disk_type], << >>)
        ELSE IF size_error(Lookup(dd, disk_type.s), py_int(disk_size_gb).i) # None
        THEN error(400, size_error(Lookup(dd, disk_type.s), py_int(disk_size_gb).i), << >>)
        ELSE calculate_core(md, dd, machine_type, disk_type, py_int(disk_size_gb).i)

\* The final clamp without its lower bound: min(optimal_size, max_size).
clamp_size_NoLowerBound(optimal_size, min_size, max_size) == Min2(optimal_size, max_size)

\* app.py:321, max(min_size, min(optimal_size, max_size))
clamp_size(optimal_size, min_size, max_size) == Max2(min_size, Min2(optimal_size, max_size))

\* app.py:301-308
optimal_for_iops(disk_spec, machine_max_iops) ==
    LET baseline == Get(Get(disk_spec, "iops_baseline", EmptyDict), "read", 0)
        iops_per_gb == disk_spec.iops_per_gb.read
        disk_max_iops == disk_spec.iops_max.read
        max_size == Get(disk_spec, "max_size_gb", 65536)
    IN  IF RLt(RInt(0), iops_per_gb)
        THEN LET first == Trunc(RDiv(RInt(machine_max_iops - baseline), iops_per_gb))
                 actual_iops == RAdd(RInt(baseline), RMul(RInt(first), iops_per_gb))
             IN  IF RLt(RInt(disk_max_iops), actual_iops)
                 THEN Trunc(RDiv(RInt(disk_max_iops - baseline), iops_per_gb))
                 ELSE first
        ELSE max_size

\* app.py:311-317
optimal_for_throughput(disk_spec, machine_max_throughput) ==
    LET throughput_per_gb == disk_spec.throughput_per_gb.read
        disk_max_throughput == disk_spec.throughput_max.read
        max_size == Get(disk_spec, "max_size_gb", 65536)
    IN  IF RLt(RInt(0), throughput_per_gb)
        THEN LET first == Trunc(RDiv(RInt(machine_max_throughput), throughput_per_gb))
             IN  IF RLt(RInt(disk_max_throughput), RMul(RInt(first), throughput_per_gb))
                 THEN Trunc(RDiv(RInt(disk_max_throughput), throughput_per_gb))
                 ELSE first
        ELSE max_size

\* app.py:286-321, the size the solver settles on
optimal_size_for(disk_type, disk_spec, machine_specs) ==
    IF disk_type = "local-ssd" \/ startswith_hyperdisk(disk_type)
    THEN 100
    ELSE clamp_size(Min2(optimal_for_iops(disk_spec, machine_specs.max_disk_iops_read),
                         optimal_for_throughput(disk_spec, machine_specs.max_disk_throughput_read_mbps)),
                    Get(disk_spec, "min_size_gb", 10),
                    Get(disk_spec, "max_size_gb", 65536))

\* app.py:259-330
get_optimal_disk_size(md, dd, data) ==
    LET machine_type == Get(data, "machine_type", None)
        disk_type == Get(data, "disk_type", None)
    IN  IF ~Truthy(machine_type) \/ ~Truthy(disk_type)
        THEN error(400, [msg |-> "Missing machine_type or disk_type"], << >>)
        ELSE IF ~InDict(disk_type, dd)
        THEN error(404, [msg |-> "Disk type not found"], << >>)
        ELSE IF find_machine_specs(md, machine_type, disk_type) = None
        THEN error(404, [msg |-> "Machine type not found"], <<"find_machine_specs">>)
        ELSE
          LET machine_specs == find_machine_specs(md, machine_type, disk_type)
              optimal_size == optimal_size_for(disk_type.s, Lookup(dd, disk_type.s), machine_specs)
              disk_perf == calculate_disk_performance(dd, disk_type, optimal_size)
          IN  [status |-> 200,
               body |-> [optimal_size_gb |-> optimal_size,
                         machine_max_iops |-> machine_specs.max_disk_iops_read,
                         disk_iops_at_optimal |->
                           IF disk_perf # None THEN Get(disk_perf, "iops_read", 0) ELSE 0],
               calls |-> <<"find_machine_specs", "calculate_disk_performance">>]

\* the model's machine-type names in Python's str order, for list.sort
MachineTypeOrder == <<"e2-medium", "n2-standard-4">>
str_rank(name) == CHOOSE i \in 1..Len(MachineTypeOrder) : MachineTypeOrder[i] = name
str_lt(a, b) == str_rank(a) < str_rank(b)

\* every machine of every family, in the catalog's order (app.py:228-238)
RECURSIVE flat_machines(_)
flat_machines(md) ==
    IF Len(md) = 0 THEN << >>
    ELSE LET family == md[1].k
             family_data == md[1].v
         IN  [i \in 1..Len(family_data.machines) |->
                [machine_type |-> family_data.machines[i].k,
                 family |-> family,
                 family_description |-> family_data.description,
                 vcpu |-> family_data.machines[i].v.vcpu,
                 memory_gb |-> family_data.machines[i].v.memory_gb,
                 display_name |-> <<family_data.machines[i].k, " (", family, ")">>]]
             \o flat_machines(Tail(md))

\* list.sort(key = machine_type): stable, ascending (app.py:241)
RECURSIVE insert_sorted(_, _)
insert_sorted(x, sorted) ==
    IF Len(sorted) = 0 THEN <<x>>
    ELSE IF str_lt(x.machine_type, sorted[1].machine_type) THEN <<x>> \o sorted
    ELSE <<sorted[1]>> \o insert_sorted(x, Tail(sorted))

RECURSIVE sort_by_machine_type(_)
sort_by_machine_type(list) ==
    IF Len(list) = 0 THEN << >>
    ELSE insert_sorted(list[Len(list)], sort_by_machine_type(SubSeq(list, 1, Len(list) - 1)))

\* app.py:225-242
get_all_machines(md) ==
    [status |-> 200, body |-> sort_by_machine_type(flat_machines(md)), calls |-> << >>]

\* app.py:244-257
get_disk_types(dd) ==
    [status |-> 200,
     body |-> [i \in 1..Len(dd) |->
                [disk_type |-> dd[i].k,
                 name |-> dd[i].v.name,
                 type |-> dd[i].v.type,
                 description |-> dd[i].v.description,
                 min_size_gb |-> Get(dd[i].v, "min_size_gb", 10),
                 max_size_gb |-> Get(dd[i].v, "max_size_gb", 65536)]],
     calls |-> << >>]

-----------------------------------------------------------------------------
(* The catalogs the service may have loaded (data/machines.json and         *)
(* data/disks.json are read once, app.py:21-30), and the requests it may    *)
(* receive.                                                                  *)

\* request sizes: every integer of -1..MaxSize, and ExtraSizes
MaxSize == 12
\* the number of requests of a run
MaxHandled == 2
ExtraSizes == {100, 375, 500, 750, 65536, 65537}

Limits(ir, iw, tr, tw) == [max_disk_iops_read |-> ir, max_disk_iops_write |-> iw, max_disk_throughput_read_mbps |-> tr, max_disk_throughput_write_mbps |-> tw]

LimitPairs ==
    { <<Limits(8, 15, 200, 100), Limits(15, 2, 100, 300)>>,
      <<Limits(15, 2, 100, 300), Limits(0, 30, 125, 125)>>,
      <<Limits(0, 30, 125, 125), Limits(30, 8, 300, 200)>>,
      <<Limits(30, 8, 300, 200), Limits(8, 15, 200, 100)>> }

\* a machine in the old format: flat limit fields, some of them unset when `partial`
FlatMachine(vcpu, memory_gb, gbps, l, partial) ==
    [vcpu |-> vcpu, memory_gb |-> memory_gb, network_bandwidth_gbps |-> gbps]
    @@ (IF partial
        THEN [max_disk_iops_write |-> l.max_disk_iops_write,
              max_disk_throughput_read_mbps |-> l.max_disk_throughput_read_mbps]
        ELSE l)

MachineCatalog(la, lb, gbps, partial) ==
    << [k |-> "n2",
        v |-> [name |-> "N2", description |-> "General purpose (Intel)",
               machines |->
                 << [k |-> "n2-standard-4",
                     v |-> [vcpu |-> 4, memory_gb |-> 16, network_bandwidth_gbps |-> gbps,
                            cpu_platform |-> "Intel Cascade Lake",
                            disk_limits |-> << [k |-> "pd-balanced", v |-> la],
                                               [k |-> "local-ssd", v |-> lb] >>]] >>]],
       [k |-> "e2",
        v |-> [name |-> "E2", description |-> "Cost optimised",
               machines |-> << [k |-> "e2-medium", v |-> FlatMachine(2, 4, 1, lb, partial)] >>]],
       [k |-> "custom",
        v |-> [name |-> "Custom", description |-> "Custom shapes",
               machines |-> << [k |-> "n2-standard-4", v |-> FlatMachine(4, 8, 1, lb, FALSE)] >>]] >>

MachineCatalogs ==
    { MachineCatalog(p[1], p[2], gbps, gbps = 2) : p \in LimitPairs, gbps \in {1, 2} }

IopsProfiles ==
    { [iops_per_gb |-> [read |-> Rat(3, 2), write |-> Rat(1, 2)], iops_max |-> [read |-> 9, write |-> 20]],
      [iops_per_gb |-> [read |-> Rat(2, 1), write |-> Rat(3, 2)], iops_max |-> [read |-> 20, write |-> 9]],
      [iops_per_gb |-> [read |-> Rat(0, 1), write |-> Rat(2, 1)], iops_max |-> [read |-> 9, write |-> 9]] }

BaselineProfiles ==
    { EmptyDict,
      [iops_baseline |-> [read |-> 3, write |-> 1]] }

ThroughputProfiles ==
    { [throughput_per_gb |-> [read |-> Rat(25, 1), write |-> Rat(25, 2)], throughput_max |-> [read |-> 250, write |-> 100]],
      [throughput_per_gb |-> [read |-> Rat(25, 2), write |-> Rat(25, 1)], throughput_max |-> [read |-> 100, write |-> 250]],
      [throughput_per_gb |-> [read |-> Rat(0, 1), write |-> Rat(25, 1)], throughput_max |-> [read |-> 100, write |-> 100]] }

\* `bounded`: the entries state min_size_gb / max_size_gb and the hyperdisk entry its
\* own iops_min / iops_max; otherwise the code's defaults apply
DiskCatalog(ip, bl, tp, bounded) ==
    << [k |-> "pd-balanced",
        v |-> [name |-> "Balanced Persistent Disk", type |-> "persistent",
               description |-> "Balanced price and performance"]
              @@ ip @@ bl @@ tp
              @@ (IF bounded THEN [min_size_gb |-> 2, max_size_gb |-> 8] ELSE EmptyDict)],
       [k |-> "local-ssd",
        v |-> [name |-> "Local SSD", type |-> "local", description |-> "Physically attached SSD",
               iops_fixed |-> [read |-> 20, write |-> 12],
               throughput_fixed |-> [read |-> 150, write |-> 90]]
              @@ (IF bounded THEN [min_size_gb |-> 375, max_size_gb |-> 9000] ELSE EmptyDict)],
       [k |-> "hyperdisk-balanced",
        v |-> [name |-> "Hyperdisk Balanced", type |-> "hyperdisk",
               description |-> "Provisioned performance",
               throughput_min |-> 140, throughput_max |-> 2400,
               note |-> "Performance is provisioned independently of size"]
              @@ (IF bounded
                  THEN [iops_min |-> 30, iops_max |-> 1600, min_size_gb |-> 4]
                  ELSE [iops_fixed |-> 500])] >>

DiskCatalogs ==
    { DiskCatalog(ip, bl, tp, bounded) : ip \in IopsProfiles, bl \in BaselineProfiles, tp \in ThroughputProfiles, bounded \in BOOLEAN }

MachineTypeValues == {None, JStr("e2-medium"), JStr("n2-standard-4"), JStr("zz-unknown")}
DiskTypeValues == {None} \cup {JStr(n) : n \in DiskTypeNames}
Sizes == (-1..MaxSize) \cup ExtraSizes
SizeValues == {None, JStr("abc"), JStr("0"), JStr("5"), JFloat(1, 2), JFloat(5, 2)} \cup {JInt(i) : i \in Sizes}

\* JSON bodies; a key that is absent and a key that is null both read as None
CalculateData == [machine_type : MachineTypeValues, disk_type : DiskTypeValues, disk_size_gb : SizeValues]
OptimalData == [machine_type : MachineTypeValues, disk_type : DiskTypeValues]

-----------------------------------------------------------------------------
(* The service *)

Init ==
    /\ machine_data \in MachineCatalogs
    /\ disk_data \in DiskCatalogs
    /\ loaded = [machine_data |-> machine_data, disk_data |-> disk_data]
    /\ request = None
    /\ response = None
    /\ calls = << >>
    /\ handled = 0

\* The handler's answer becomes the response, with the result dict of
\* calculate_disk_performance being the catalog's own disk_spec instead of a new dict
\* (result = disk_spec): the entry of the catalog gains the request's disk_size_gb.
Answer_AliasesDiskSpec(route, data, r) ==
    /\ request' = [route |-> route, data |-> data]
    /\ response' = [status |-> r.status, body |-> r.body]
    /\ calls' = r.calls
    /\ handled' = handled + 1
    /\ disk_data' =
         IF route = "calculate" /\ r.status = 200
         THEN [i \in 1..Len(disk_data) |->
                IF disk_data[i].k = data.disk_type.s
                THEN [k |-> disk_data[i].k,
                      v |-> [disk_size_gb |-> r.body.disk_size_gb] @@ disk_data[i].v]
                ELSE disk_data[i]]
         ELSE disk_data
    /\ UNCHANGED <<machine_data, loaded>>

\* the handler's answer becomes the response; no handler assigns a catalog
Answer(route, data, r) ==
    /\ request' = [route |-> route, data |-> data]
    /\ response' = [status |-> r.status, body |-> r.body]
    /\ calls' = r.calls
    /\ handled' = handled + 1
    /\ UNCHANGED <<machine_data, disk_data, loaded>>

\* POST /api/calculate
Calculate ==
    /\ request = None /\ handled < MaxHandled
    /\ \E data \in CalculateData : Answer("calculate", data, calculate(machine_data, disk_data, data))

\* POST /api/optimal-disk-size
OptimalDiskSize ==
    /\ request = None /\ handled < MaxHandled
    /\ \E data \in OptimalData : Answer("optimal-disk-size", data, get_optimal_disk_size(machine_data, disk_data, data))

\* GET /api/all-machines
AllMachines ==
    /\ request = None /\ handled < MaxHandled
    /\ Answer("all-machines", None, get_all_machines(machine_data))

\* GET /api/disk-types
DiskTypes ==
    /\ request = None /\ handled < MaxHandled
    /\ Answer("disk-types", None, get_disk_types(disk_data))

\* the response is sent and the request is over
Respond ==
    /\ request # None
    /\ request' = None
    /\ response' = None
    /\ calls' = << >>
    /\ UNCHANGED <<machine_data, disk_data, loaded, handled>>

Next == Calculate \/ OptimalDiskSize \/ AllMachines \/ DiskTypes \/ Respond

Spec == Init /\ [][Next]_vars

-----------------------------------------------------------------------------
(* Properties *)

Answered(route) == request # None /\ request.route = route
Dirs == {"read", "write"}

\* the Scaling disk types of the loaded catalog
IsScaling(name) == Has(disk_data, name) /\ name # "local-ssd" /\ ~startswith_hyperdisk(name)
KnownMachine(v) == \E i \in 1..Len(machine_data) : InDict(v, machine_data[i].v.machines)

\* a calculate request that was answered 200 for a disk that is not a hyperdisk
CalculatedPlain ==
    /\ Answered("calculate")
    /\ response.status = 200
    /\ ~startswith_hyperdisk(request.data.disk_type.s)

\* the inputs calculate passed to calculate_effective_performance
PassedMachineSpecs == find_machine_specs(machine_data, request.data.machine_type, request.data.disk_type)
PassedDiskPerformance == calculate_disk_performance(disk_data, request.data.disk_type, py_int(request.data.disk_size_gb).i)

MachineIops(ms, dir) == IF dir = "read" THEN ms.max_disk_iops_read ELSE ms.max_disk_iops_write
MachineThroughput(ms, dir) == IF dir = "read" THEN ms.max_disk_throughput_read_mbps ELSE ms.max_disk_throughput_write_mbps
Iops(r, dir) == IF dir = "read" THEN r.iops_read ELSE r.iops_write
Throughput(r, dir) == IF dir = "read" THEN r.throughput_read_mbps ELSE r.throughput_write_mbps

\* C1: every effective value of a non-hyperdisk calculation is at most each of its
\* ceilings (machine and disk for IOPS; machine, disk and network_bandwidth_gbps * 125
\* for throughput), in both directions, and equals one of them.
C1_EffectiveWithinCeilings ==
    CalculatedPlain =>
      LET ms == PassedMachineSpecs
          dp == PassedDiskPerformance
          eff == response.body.effective_performance
          net == ms.network_bandwidth_gbps * 125
      IN  \A dir \in Dirs :
            /\ Iops(eff, dir) <= MachineIops(ms, dir)
            /\ Iops(eff, dir) <= Iops(dp, dir)
            /\ Iops(eff, dir) \in {MachineIops(ms, dir), Iops(dp, dir)}
            /\ Throughput(eff, dir) <= MachineThroughput(ms, dir)
            /\ Throughput(eff, dir) <= Throughput(dp, dir)
            /\ Throughput(eff, dir) <= net
            /\ Throughput(eff, dir) \in {MachineThroughput(ms, dir), Throughput(dp, dir), net}

\* a calculation whose read throughput is bound by the network alone, and whose read
\* IOPS is bound by the disk alone
C1_Witness ==
    /\ CalculatedPlain
    /\ LET ms == PassedMachineSpecs
           dp == PassedDiskPerformance
           eff == response.body.effective_performance
       IN  /\ eff.throughput_read_mbps = ms.network_bandwidth_gbps * 125
           /\ eff.throughput_read_mbps < ms.max_disk_throughput_read_mbps
           /\ eff.throughput_read_mbps < dp.throughput_read_mbps
           /\ eff.iops_read = dp.iops_read
           /\ eff.iops_read < ms.max_disk_iops_read

\* C2: the optimal-disk-size result never overshoots: disk_iops_at_optimal <=
\* machine_max_iops, whatever the machine type and disk type of the catalog.
C2_NeverOvershoots ==
    (Answered("optimal-disk-size") /\ response.status = 200) =>
      response.body.disk_iops_at_optimal <= response.body.machine_max_iops

\* whether the handler of the request invoked calculator function f
Invoked(f) == \E i \in 1..Len(calls) : calls[i] = f

\* the request passes every check calculate makes before it looks the machine up:
\* the three fields are present, the size converts to a positive integer, and the
\* disk type is in the catalog with the size inside its bounds
PassesValidation(data) ==
    /\ Truthy(data.machine_type) /\ Truthy(data.disk_type) /\ Truthy(data.disk_size_gb)
    /\ py_int(data.disk_size_gb).ok
    /\ py_int(data.disk_size_gb).i > 0
    /\ InDict(data.disk_type, disk_data)
    /\ LET disk_spec == Lookup(disk_data, data.disk_type.s)
       IN  /\ py_int(data.disk_size_gb).i >= Get(disk_spec, "min_size_gb", 10)
           /\ py_int(data.disk_size_gb).i <= Get(disk_spec, "max_size_gb", 65536)

\* the request fails one of the checks that calculate answers with 400
FailsWith400(data) ==
    \/ ~(Truthy(data.machine_type) /\ Truthy(data.disk_type) /\ Truthy(data.disk_size_gb))
    \/ ~py_int(data.disk_size_gb).ok
    \/ py_int(data.disk_size_gb).i <= 0
    \/ /\ InDict(data.disk_type, disk_data)
       /\ ~PassesValidation(data)

C4_SizeValidation ==
    (/\ Answered("calculate")
     /\ Truthy(request.data.machine_type)
     /\ request.data.disk_type.t = "str"
     /\ IsScaling(request.data.disk_type.s)
     /\ request.data.disk_size_gb.t = "int") =>
      LET disk_spec == Lookup(disk_data, request.data.disk_type.s)
          size == request.data.disk_size_gb.i
          min_size_gb == Get(disk_spec, "min_size_gb", 10)
          max_size_gb == Get(disk_spec, "max_size_gb", 65536)
      IN  IF size < min_size_gb \/ size > max_size_gb
          THEN response.status = 400
          ELSE response.status = (IF KnownMachine(request.data.machine_type) THEN 200 ELSE 404)

\* a size equal to the disk's stated min_size_gb, accepted
C4_Witness ==
    /\ Answered("calculate")
    /\ request.data.disk_type.t = "str"
    /\ IsScaling(request.data.disk_type.s)
    /\ request.data.disk_size_gb.t = "int"
    /\ "min_size_gb" \in DOMAIN Lookup(disk_data, request.data.disk_type.s)
    /\ request.data.disk_size_gb.i = Lookup(disk_data, request.data.disk_type.s).min_size_gb
    /\ response.status = 200

\* the pieces of a bottleneck text that name a metric (the text without its
\* 'Bottleneck: ' head and its ', ' separators)
Reported == {response.body.bottleneck[i] : i \in 1..Len(response.body.bottleneck)}
ReportedAt(i) == response.body.bottleneck[2 * i]
ReportedCount == Len(response.body.bottleneck) \div 2

DiskThroughputLabel(dir) == IF dir = "read" THEN "disk throughput (read)" ELSE "disk throughput (write)"
NetworkLabel(dir) == IF dir = "read" THEN "network bandwidth (read)" ELSE "network bandwidth (write)"
DiskIopsLabel(dir) == IF dir = "read" THEN "disk IOPS (read)" ELSE "disk IOPS (write)"

\* C5: for a non-hyperdisk calculation and each direction, when the effective
\* throughput is below the machine ceiling exactly one throughput bottleneck is
\* reported for the direction: the disk's if disk throughput <= network throughput
\* (a tie goes to the disk), the network's otherwise.
C5_ThroughputAttribution ==
    CalculatedPlain =>
      LET ms == PassedMachineSpecs
          dp == PassedDiskPerformance
          eff == response.body.effective_performance
          net == ms.network_bandwidth_gbps * 125
      IN  \A dir \in Dirs :
            Throughput(eff, dir) < MachineThroughput(ms, dir) =>
              IF Throughput(dp, dir) <= net
              THEN DiskThroughputLabel(dir) \in Reported /\ NetworkLabel(dir) \notin Reported
              ELSE NetworkLabel(dir) \in Reported /\ DiskThroughputLabel(dir) \notin Reported

\* the tie: disk throughput equal to network throughput, both below the machine ceiling
C5_Witness ==
    /\ CalculatedPlain
    /\ LET ms == PassedMachineSpecs
           dp == PassedDiskPerformance
       IN  \E dir \in Dirs :
             /\ Throughput(dp, dir) = ms.network_bandwidth_gbps * 125
             /\ Throughput(dp, dir) < MachineThroughput(ms, dir)
             /\ DiskThroughputLabel(dir) \in Reported

\* the four metrics in the order the code checks them, and the labels of each
Metrics == <<[kind |-> "iops", dir |-> "read"], [kind |-> "iops", dir |-> "write"], [kind |-> "throughput", dir |-> "read"], [kind |-> "throughput", dir |-> "write"]>>
LabelsOf(m) == IF m.kind = "iops" THEN {DiskIopsLabel(m.dir)} ELSE {DiskThroughputLabel(m.dir), NetworkLabel(m.dir)}
EffectiveOf(eff, m) == IF m.kind = "iops" THEN Iops(eff, m.dir) ELSE Throughput(eff, m.dir)
CeilingOf(ms, m) == IF m.kind = "iops" THEN MachineIops(ms, m.dir) ELSE MachineThroughput(ms, m.dir)

\* C6: for a non-hyperdisk calculation the bottleneck is 'Machine type is the
\* limiting factor' iff all four effective values equal the machine's ceilings;
\* otherwise it lists, in the order IOPS read, IOPS write, throughput read, throughput
\* write, exactly the metrics whose effective value is below the machine ceiling, and
\* 'disk IOPS (<dir>)' is listed exactly when disk iops_<dir> < machine max_disk_iops_<dir>.
C6_BottleneckField ==
    CalculatedPlain =>
      LET ms == PassedMachineSpecs
          dp == PassedDiskPerformance
          eff == response.body.effective_performance
          below == {i \in 1..4 : EffectiveOf(eff, Metrics[i]) < CeilingOf(ms, Metrics[i])}
          atCeiling == \A i \in 1..4 : EffectiveOf(eff, Metrics[i]) = CeilingOf(ms, Metrics[i])
      IN  /\ (response.body.bottleneck = <<"Machine type is the limiting factor">>) <=> atCeiling
          /\ ~atCeiling =>
               /\ response.body.bottleneck[1] = "Bottleneck: "
               /\ Len(response.body.bottleneck) = 2 * Cardinality(below)
               /\ \A j \in 1..Cardinality(below) :
                    \E i \in below :
                      /\ Cardinality({h \in below : h <= i}) = j
                      /\ ReportedAt(j) \in LabelsOf(Metrics[i])
               /\ \A j \in 1..(Cardinality(below) - 1) : response.body.bottleneck[2 * j + 1] = ", "
          /\ \A dir \in Dirs :
               (DiskIopsLabel(dir) \in Reported) <=> (Iops(dp, dir) < MachineIops(ms, dir))

\* three metrics below the machine ceiling and one at it, reported in order
C6_Witness ==
    /\ CalculatedPlain
    /\ LET ms == PassedMachineSpecs
           eff == response.body.effective_performance
       IN  /\ eff.iops_read < ms.max_disk_iops_read
           /\ eff.iops_write = ms.max_disk_iops_write
           /\ eff.throughput_read_mbps < ms.max_disk_throughput_read_mbps
           /\ eff.throughput_write_mbps < ms.max_disk_throughput_write_mbps
    /\ ReportedCount = 3
    /\ ReportedAt(1) = "disk IOPS (read)"

IsTruncMin(v, x, d, max) ==
    IF x >= max * d THEN v = max
    ELSE IF x >= 0 THEN v >= 0 /\ v * d <= x /\ x < (v + 1) * d
    ELSE v <= 0 /\ (v - 1) * d < x /\ x <= v * d

\* the size a handler passed to calculate_disk_performance for a Scaling disk
PassedScaling ==
    /\ Invoked("calculate_disk_performance")
    /\ IsScaling(request.data.disk_type.s)
PassedSize ==
    IF request.route = "calculate" THEN py_int(request.data.disk_size_gb).i
    ELSE response.body.optimal_size_gb

\* C8: for a Scaling disk type and every size, per direction, iops_<dir> =
\* trunc(min(iops_baseline.<dir> (0 if absent) + size * iops_per_gb.<dir>, iops_max.<dir>))
\* and throughput_<dir>_mbps = trunc(min(size * throughput_per_gb.<dir>,
\* throughput_max.<dir>)), with no baseline term; each value is at most the disk's
\* maximum for the metric and non-decreasing in size.
C8_ScalingPerformance ==
    PassedScaling =>
      LET disk_type == request.data.disk_type
          disk_spec == Lookup(disk_data, disk_type.s)
          perf(size) == calculate_disk_performance(disk_data, disk_type, size)
          baseline(dir) == IF "iops_baseline" \in DOMAIN disk_spec /\ dir \in DOMAIN disk_spec.iops_baseline
                           THEN disk_spec.iops_baseline[dir] ELSE 0
      IN  \A size \in Sizes \cup {PassedSize} :
            LET p == perf(size)
            IN  /\ \A dir \in Dirs :
                     /\ IsTruncMin(Iops(p, dir),
                                   baseline(dir) * disk_spec.iops_per_gb[dir].d + size * disk_spec.iops_per_gb[dir].n,
                                   disk_spec.iops_per_gb[dir].d, disk_spec.iops_max[dir])
                     /\ IsTruncMin(Throughput(p, dir),
                                   size * disk_spec.throughput_per_gb[dir].n,
                                   disk_spec.throughput_per_gb[dir].d, disk_spec.throughput_max[dir])
                     /\ Iops(p, dir) <= disk_spec.iops_max[dir]
                     /\ Throughput(p, dir) <= disk_spec.throughput_max[dir]
                \* non-decreasing: from each size to the next larger one
                /\ \A larger \in Sizes \cup {PassedSize} :
                     (size < larger /\ \A mid \in Sizes \cup {PassedSize} : ~(size < mid /\ mid < larger)) =>
                       LET q == perf(larger)
                       IN  \A dir \in Dirs :
                             /\ Iops(p, dir) <= Iops(q, dir)
                             /\ Throughput(p, dir) <= Throughput(q, dir)

\* a calculation whose write IOPS has a baseline, a fraction cut off and no cap, and
\* whose write throughput has a fraction cut off
C8_Witness ==
    /\ Answered("calculate")
    /\ response.status = 200
    /\ PassedScaling
    /\ LET disk_spec == Lookup(disk_data, request.data.disk_type.s)
           dp == response.body.disk_performance
       IN  /\ "iops_baseline" \in DOMAIN disk_spec
           /\ disk_spec.iops_per_gb.write.d > 1
           /\ (dp.disk_size_gb * disk_spec.iops_per_gb.write.n) % disk_spec.iops_per_gb.write.d # 0
           /\ dp.iops_write < disk_spec.iops_max.write
           /\ dp.iops_write > disk_spec.iops_baseline.write
           /\ (dp.disk_size_gb * disk_spec.throughput_per_gb.write.n) % disk_spec.throughput_per_gb.write.d # 0
           /\ dp.throughput_write_mbps < disk_spec.throughput_max.write

\* the entry of the first family, in the catalog's order, that has machine type v
FirstEntry(v) == LET i == CHOOSE j \in 1..Len(machine_data) : InDict(v, machine_data[j].v.machines) /\ \A h \in 1..(j - 1) : ~InDict(v, machine_data[h].v.machines) IN Lookup(machine_data[i].v.machines, v.s)
LimitFields == {"max_disk_iops_read", "max_disk_iops_write", "max_disk_throughput_read_mbps", "max_disk_throughput_write_mbps"}

\* C9: find_machine_specs returns None exactly when machine_type is in no family;
\* otherwise the four limits are those of the machine's per-disk-type entry for
\* disk_type when the machine has per-disk-type limits and disk_type is given and
\* present in them, those of the first per-disk-type entry when it has such limits and
\* disk_type is absent from them or not given, and the machine's flat fields, 0 for
\* each unset one, when it has no per-disk-type limits.
C9_LimitResolution ==
    Invoked("find_machine_specs") =>
      LET machine_type == request.data.machine_type
      IN  \A disk_type \in DiskTypeValues :
            LET result == find_machine_specs(machine_data, machine_type, disk_type)
            IN  /\ (result = None) <=> ~KnownMachine(machine_type)
                /\ KnownMachine(machine_type) =>
                     LET machine == FirstEntry(machine_type)
                     IN  \A f \in LimitFields :
                           IF "disk_limits" \in DOMAIN machine
                           THEN IF disk_type # None /\ \E j \in 1..Len(machine.disk_limits) : machine.disk_limits[j].k = disk_type.s
                                THEN \E j \in 1..Len(machine.disk_limits) :
                                       /\ machine.disk_limits[j].k = disk_type.s
                                       /\ result[f] = machine.disk_limits[j].v[f]
                                ELSE result[f] = machine.disk_limits[1].v[f]
                           ELSE IF f \in DOMAIN machine
                                THEN result[f] = machine[f]
                                ELSE result[f] = 0

\* a calculation for a machine with per-disk-type limits and a disk type that is not
\* among them: the limits reported are those of the first entry, which differ from
\* those of the last
C9_Witness ==
    /\ Answered("calculate")
    /\ response.status = 200
    /\ LET machine == FirstEntry(request.data.machine_type)
       IN  /\ "disk_limits" \in DOMAIN machine
           /\ ~Has(machine.disk_limits, request.data.disk_type.s)
           /\ response.body.machine_limits.iops_read = machine.disk_limits[1].v.max_disk_iops_read
           /\ response.body.machine_limits.iops_read # machine.disk_limits[Len(machine.disk_limits)].v.max_disk_iops_read

Clamp(x, lo, hi) == IF x < lo THEN lo ELSE IF x > hi THEN hi ELSE x

\* an optimal-disk-size request answered for a Scaling disk type
SolvedScaling ==
    /\ Answered("optimal-disk-size")
    /\ response.status = 200
    /\ IsScaling(request.data.disk_type.s)

\* C10: for a Scaling disk type with min_size_gb <= max_size_gb the optimal_size_gb
\* returned is clamp(min(size_for_iops, size_for_throughput), min_size_gb, max_size_gb),
\* so it lies within the disk's bounds and a calculate request for the same machine
\* type, disk type and that size is not rejected by the size validation; a
\* candidate whose per-GB rate is 0 is max_size_gb.
C10_OptimalWithinBounds ==
    SolvedScaling =>
      LET disk_spec == Lookup(disk_data, request.data.disk_type.s)
          machine_specs == find_machine_specs(machine_data, request.data.machine_type, request.data.disk_type)
          min_size_gb == Get(disk_spec, "min_size_gb", 10)
          max_size_gb == Get(disk_spec, "max_size_gb", 65536)
          size_for_iops == optimal_for_iops(disk_spec, machine_specs.max_disk_iops_read)
          size_for_throughput == optimal_for_throughput(disk_spec, machine_specs.max_disk_throughput_read_mbps)
          optimal == response.body.optimal_size_gb
          again == calculate(machine_data, disk_data, [disk_size_gb |-> JInt(optimal)] @@ request.data)
      IN  min_size_gb <= max_size_gb =>
            /\ optimal = Clamp(IF size_for_iops <= size_for_throughput THEN size_for_iops ELSE size_for_throughput,
                               min_size_gb, max_size_gb)
            /\ min_size_gb <= optimal /\ optimal <= max_size_gb
            /\ again.status = 200
            /\ disk_spec.iops_per_gb.read.n = 0 => size_for_iops = max_size_gb
            /\ disk_spec.throughput_per_gb.read.n = 0 => size_for_throughput = max_size_gb

\* the smaller candidate lies below min_size_gb and the answer is min_size_gb
C10_Witness ==
    /\ SolvedScaling
    /\ LET disk_spec == Lookup(disk_data, request.data.disk_type.s)
           machine_specs == find_machine_specs(machine_data, request.data.machine_type, request.data.disk_type)
       IN  /\ optimal_for_iops(disk_spec, machine_specs.max_disk_iops_read) > optimal_for_throughput(disk_spec, machine_specs.max_disk_throughput_read_mbps)
           /\ optimal_for_throughput(disk_spec, machine_specs.max_disk_throughput_read_mbps) < Get(disk_spec, "min_size_gb", 10)
           /\ optimal_for_throughput(disk_spec, machine_specs.max_disk_throughput_read_mbps) > 0
           /\ response.body.optimal_size_gb = Get(disk_spec, "min_size_gb", 10)

=============================================================================
